---- MODULE Spec2Model ----
(***************************************************************************)
(* Model of scripts/dcm_to_png.py: the batch DICOM-to-PNG converter.       *)
(*                                                                         *)
(* The script is one sequential module body.  The model keeps the file     *)
(* system it reads (listing, badDir), the output directory it writes       *)
(* (dstState, out), the script's own variables (root, files, fn, px, lo,   *)
(* hi, img, count), the stack of os.walk, what was printed, and a few      *)
(* history variables (decoded, written, skipped, run, snap).               *)
(*                                                                         *)
(* Numbers.  Samples are integers (pixel_array of an integer DICOM,        *)
(* exactly representable as float32).  The script's real arithmetic is     *)
(* modelled exactly with integer fractions:                                *)
(*   - lo and hi hold 100 times the 1st / 99th percentile (the linear      *)
(*     interpolation x[k] + (r/100) * (x[k+1] - x[k]) has denominator 100) *)
(*   - the ratio (s - lo) / (hi - lo + 1e-6) is the fraction               *)
(*     RatioNum / RatioDen, both scaled by 10^6.                           *)
(* File names are sequences of one-character strings, so that lower(),     *)
(* endswith() and splitext() are computed, not assumed.                    *)
(***************************************************************************)
EXTENDS Integers, Sequences, FiniteSets, TLC

VARIABLES
    listing,    \* input tree: the files under src, in traversal (scandir) order
    badDir,     \* the directory of the input tree that cannot be listed, or NoDir
    dstState,   \* output root: "absent", "dir" or "blocked" (cannot be created)
    out,        \* output root's files: name -> content
    pc,         \* "makedirs", "loop", "done", "error"
    err,        \* the exception that ended the run: "none", "makedirs", "decode", "save"
    stack,      \* os.walk's stack of directories still to list (head = top)
    root,       \* the directory os.walk yielded last
    files,      \* files of that directory not yet iterated (indices into listing)
    fn,         \* filename of the file being converted
    px,         \* its sample grid (line 25)
    lo,         \* 100 * 1st percentile of px
    hi,         \* 100 * 99th percentile of px
    img,        \* the 8-bit grid (line 29)
    count,      \* converted files
    stdout,     \* lines printed
    decoded,    \* history: files read by dcmread in this run, in order
    written,    \* history: files saved in this run, in order
    skipped,    \* history: directories whose listing failed inside os.walk
    run,        \* which invocation of the script this is
    snap,       \* history: the output root as the first run left it
    saved,      \* history: the out_path of every Image.save call of this run
    start,      \* history: the output root as this run found it
    mainPc,     \* generate_panel_doc.py: "idle", "create", "questions", "save",
                \* "copy", "done", "error"
    doc,        \* the document: headings and paragraphs added by the question loop
    category,   \* index of the category the question loop is at
    question,   \* questions of that category already added (-1: heading not yet)
    disk,       \* path -> "absent", "old" (a file from before) or "docx"
    writable,   \* whether files can be written in the working directory
    printed,    \* lines printed by generate_panel_doc.py
    raised      \* the exception that ended it, or "none"

vars == <<listing, badDir, dstState, out, pc, err, stack, root, files, fn, px,
          lo, hi, img, count, stdout, decoded, written, skipped, run, snap,
          saved, start, mainPc, doc, category, question, disk, writable, printed,
          raised>>

panelVars == <<mainPc, doc, category, question, disk, writable, printed, raised>>

-----------------------------------------------------------------------------
(* Bounds *)

MaxFiles == 2      \* files under the input root
MaxSamples == 4    \* samples of a grid (rows * cols)
MaxVal == 2        \* samples range over -1..MaxVal
MaxRuns == 2       \* invocations of the script
MaxOutlier == 2000 \* magnitude of the outlier samples of the large grids

-----------------------------------------------------------------------------
(* File names: line 18 (filter) and lines 20-22 (output name) *)

Names ==
    { <<"a", ".", "d", "c", "m">>,
      <<"a", ".", "D", "C", "M">>,
      <<".", "D", "c", "m">>,
      <<"a", ".", "t", "x", "t">>,
      <<".", "d", "c", "m">> }

\* str.lower() on the characters file names are made of
LowerChar(c) ==
    CASE c = "D" -> "d"
      [] c = "C" -> "c"
      [] c = "M" -> "m"
      [] OTHER -> c

Lower(s) == [i \in 1..Len(s) |-> LowerChar(s[i])]

EndsWith(s, suffix) ==
    /\ Len(s) >= Len(suffix)
    /\ SubSeq(s, Len(s) - Len(suffix) + 1, Len(s)) = suffix

DcmExt == <<".", "d", "c", "m">>
PngExt == <<".", "p", "n", "g">>

\* a filter that forgets lower(): fn.endswith(".dcm")
MatchesCaseSensitive(name) == EndsWith(name, DcmExt)

\* line 18: fn.lower().endswith(".dcm")
Matches(name) == EndsWith(Lower(name), DcmExt)

\* os.path.splitext(fn)[0]: cut at the last dot, unless only dots precede it
DotPositions(s) == {i \in 1..Len(s) : s[i] = "."}

LastDot(s) == CHOOSE i \in DotPositions(s) : \A j \in DotPositions(s) : j <= i

SplitextRoot(s) ==
    IF DotPositions(s) = {} THEN s
    ELSE IF \A j \in 1..(LastDot(s) - 1) : s[j] = "." THEN s
    ELSE SubSeq(s, 1, LastDot(s) - 1)

\* an output name that keeps the source extension
OutNameSameExt(name) == SplitextRoot(name) \o DcmExt

\* lines 21: out_name
OutName(name) == SplitextRoot(name) \o PngExt

DstPath == "dst"

\* an output path that keeps the source's directory below the output root
OutPathNested(d, name) == <<DstPath, d, OutName(name)>>

\* lines 21-22: out_path = os.path.join(dst, out_name), as path components;
\* the directory the file was found in (root) plays no part
OutPath(d, name) == <<DstPath, OutName(name)>>

-----------------------------------------------------------------------------
(* The normalizer: lines 27-29 *)

Samples == (-1)..MaxVal

Shapes == {rc \in (1..MaxSamples) \X (1..MaxSamples) : rc[1] * rc[2] <= MaxSamples}

\* every grid of at most MaxSamples samples
Grids == UNION {[1..rc[1] -> [1..rc[2] -> Samples]] : rc \in Shapes}

NoGrid == <<>>

RECURSIVE Flatten(_)
Flatten(g) == IF g = <<>> THEN <<>> ELSE Head(g) \o Flatten(Tail(g))

\* the samples in ascending order: those below the first one, sorted, those
\* equal to it, those above it, sorted
RECURSIVE Sort(_)
Sort(s) ==
    IF s = <<>> THEN <<>>
    ELSE Sort(SelectSeq(s, LAMBDA x : x < Head(s)))
             \o SelectSeq(s, LAMBDA x : x = Head(s))
             \o Sort(SelectSeq(s, LAMBDA x : x > Head(s)))

\* a percentile that takes the nearest lower sample instead of interpolating
PercentileLower(g, q) ==
    LET x == Sort(Flatten(g))
        k == (q * (Len(x) - 1)) \div 100
    IN  100 * x[k + 1]

\* min-max windowing: the extremes instead of the percentiles
PercentileMinMax(g, q) ==
    LET x == Sort(Flatten(g))
    IN  IF 2 * q < 100 THEN 100 * x[1] ELSE 100 * x[Len(x)]

\* the two percentiles taken in the wrong order: (99, 1) for (1, 99)
PercentileSwapped(g, q) ==
    LET x == Sort(Flatten(g))
        pos == (100 - q) * (Len(x) - 1)
        k == pos \div 100
        r == pos % 100
    IN  IF r = 0 THEN 100 * x[k + 1]
        ELSE 100 * x[k + 1] + r * (x[k + 2] - x[k + 1])

\* line 27: 100 * np.percentile(px, q), linear interpolation between the two
\* sorted samples around the virtual index q/100 * (n - 1)
Percentile(g, q) ==
    LET x == Sort(Flatten(g))
        pos == q * (Len(x) - 1)
        k == pos \div 100
        r == pos % 100
    IN  IF r = 0 THEN 100 * x[k + 1]
        ELSE 100 * x[k + 1] + r * (x[k + 2] - x[k + 1])

\* (hi - px): the wrong bound subtracted
RatioNumFromHi(s, l, h) == (h - 100 * s) * 10000

\* line 28: px - lo, scaled by 10^6 (l and h are 100 * lo and 100 * hi)
RatioNum(s, l, h) == (100 * s - l) * 10000

\* the denominator without the epsilon
RatioDenNoEps(l, h) == (h - l) * 10000

\* line 28: hi - lo + 1e-6, scaled by 10^6
RatioDen(l, h) == (h - l) * 10000 + 1

\* line 28: np.clip(num/den, 0, 1), as the clipped numerator (den > 0)
Clip(num, den) ==
    IF num < 0 THEN 0 ELSE IF num > den THEN den ELSE num

\* <<(m * c) \div den, (m * c) % den>> for 0 <= c <= den, by doubling, so that
\* no intermediate value exceeds den
Doubled(qr, den) ==
    IF qr[2] >= den - qr[2] THEN <<2 * qr[1] + 1, qr[2] - (den - qr[2])>>
    ELSE <<2 * qr[1], 2 * qr[2]>>

Added(qr, c, den) ==
    IF qr[2] >= den - c THEN <<qr[1] + 1, qr[2] - (den - c)>>
    ELSE <<qr[1], qr[2] + c>>

RECURSIVE MulDivMod(_, _, _)
MulDivMod(m, c, den) ==
    IF m = 0 THEN <<0, 0>>
    ELSE IF m % 2 = 0 THEN Doubled(MulDivMod(m \div 2, c, den), den)
    ELSE Added(Doubled(MulDivMod(m \div 2, c, den), den), c, den)

\* a conversion that rounds to the nearest integer
Round255(num, den) ==
    IF den = 0 THEN 0
    ELSE IF num >= 0 /\ num <= den /\ den <= 4000000 THEN (510 * num + den) \div (2 * den)
    ELSE IF num >= 0 /\ num <= den
         THEN IF MulDivMod(255, num, den)[2] >= den - MulDivMod(255, num, den)[2]
              THEN MulDivMod(255, num, den)[1] + 1
              ELSE MulDivMod(255, num, den)[1]
    ELSE IF num >= 0 THEN (255 * num) \div den
    ELSE 0 - ((255 * (0 - num)) \div den)

\* line 29: float -> integer conversion truncates toward zero.  A zero
\* denominator (0/0 = nan in float arithmetic, no exception) converts to 0.
Trunc255(num, den) ==
    IF den = 0 THEN 0
    ELSE IF num >= 0 /\ num <= 8000000 THEN (255 * num) \div den
    ELSE IF num >= 0 /\ num <= den THEN MulDivMod(255, num, den)[1]
    ELSE IF num >= 0 THEN (255 * num) \div den
    ELSE 0 - ((255 * (0 - num)) \div den)

\* astype(np.int8): the wrong 8-bit type
AsInt8(v) == IF v % 256 >= 128 THEN (v % 256) - 256 ELSE v % 256

\* line 29: astype(np.uint8)
AsUint8(v) == v % 256

\* lines 28-29 for one sample
Pixel(s, l, h) ==
    AsUint8(Trunc255(Clip(RatioNum(s, l, h), RatioDen(l, h)), RatioDen(l, h)))

\* the computation run on the flattened array
NormalizeFlat(g, l, h) ==
    LET x == Flatten(g) IN <<[i \in 1..Len(x) |-> Pixel(x[i], l, h)]>>

\* lines 28-29: numpy's elementwise arithmetic keeps the array's shape
Normalize(g, l, h) ==
    [i \in 1..Len(g) |-> [j \in 1..Len(g[i]) |-> Pixel(g[i][j], l, h)]]

-----------------------------------------------------------------------------
(* The file systems the script runs on *)

\* the input tree: src (0), src/sub (1), src/sub/subsub (2)
Root == 0
Dirs == {0, 1, 2}
NoDir == 0 - 1

\* subdirectories of a directory, in scandir order
Children(d) == IF d = 0 THEN <<1>> ELSE IF d = 1 THEN <<2>> ELSE <<>>

\* a file's content: whether dcmread parses it, its pixel_array, and the
\* number of frames.  The array of a multi-frame file has the shape (frames,
\* rows, columns); grid holds it with its frames stacked, frame after frame,
\* as frames * rows rows of columns samples.
Corrupt == [ok |-> FALSE, grid |-> NoGrid, frames |-> 0]
Readable(g) == [ok |-> TRUE, grid |-> g, frames |-> 1]
MultiFrame(g, f) == [ok |-> TRUE, grid |-> g, frames |-> f]

\* line 31: what Image.fromarray makes of the 8-bit array of a file: a
\* 2-D array is a greyscale image; a 3-D array of shape (h, w, c) is an image
\* of h rows and w columns with c channels when c is 2, 3 or 4, and a
\* TypeError otherwise
Mode(content) ==
    IF content.frames = 1 THEN "L"
    ELSE IF Len(content.grid[1]) = 2 THEN "LA"
    ELSE IF Len(content.grid[1]) = 3 THEN "RGB"
    ELSE IF Len(content.grid[1]) = 4 THEN "RGBA"
    ELSE "none"

\* two sample grids for the batch scenarios, of different shape and image
GridA == <<<<0, 1>>, <<2, 2>>>>
GridB == <<<<2, 0, 1>>>>

FileRecs(contents) == [dir : Dirs, name : Names, content : contents]

\* a listing is sorted by directory (files of one directory keep their scandir
\* order) and a directory holds no two files of the same name
WellFormed(l) ==
    /\ \A i \in 1..(Len(l) - 1) : l[i].dir <= l[i + 1].dir
    /\ \A i, j \in 1..Len(l) :
           (i # j /\ l[i].dir = l[j].dir) => l[i].name # l[j].name

Listings(contents) ==
    {l \in UNION {[1..n -> FileRecs(contents)] : n \in 0..MaxFiles} : WellFormed(l)}

\* the files of directory d, as indices into the listing, in scandir order
RECURSIVE FilesFrom(_, _, _)
FilesFrom(l, d, i) ==
    IF i > Len(l) THEN <<>>
    ELSE IF l[i].dir = d THEN <<i>> \o FilesFrom(l, d, i + 1)
    ELSE FilesFrom(l, d, i + 1)

\* a traversal that yields every file of a directory twice
FilesOfTwice(l, d) == FilesFrom(l, d, 1) \o FilesFrom(l, d, 1)

FilesOf(l, d) == FilesFrom(l, d, 1)

OldFile == [kind |-> "old", data |-> NoGrid, mode |-> "none"]
Partial == [kind |-> "partial", data |-> NoGrid, mode |-> "none"]
PngOf(g, m) == [kind |-> "png", data |-> g, mode |-> m]
Png(g) == PngOf(g, "L")

APng == <<"a", ".", "p", "n", "g">>
NoFiles == [n \in {} |-> OldFile]

NoSnap == [taken |-> FALSE, out |-> NoFiles]

\* the script's variables before line 11 runs
Fresh ==
    /\ pc = "makedirs"
    /\ err = "none"
    /\ stack = <<>>
    /\ root = NoDir
    /\ files = <<>>
    /\ fn = <<>>
    /\ px = NoGrid
    /\ lo = 0
    /\ hi = 0
    /\ img = NoGrid
    /\ count = 0
    /\ stdout = <<>>
    /\ decoded = <<>>
    /\ written = <<>>
    /\ skipped = {}
    /\ saved = <<>>

\* batches of up to MaxFiles files anywhere in the tree; either every
\* directory can be listed and the output root is in any of its conditions,
\* or one directory cannot be listed and the output root is absent
InitBatch ==
    /\ listing \in Listings({Corrupt, Readable(GridA), Readable(GridB)})
    /\ \/ /\ badDir = NoDir
          /\ \/ dstState \in {"absent", "blocked"} /\ out = NoFiles
             \/ dstState = "dir" /\ out \in {NoFiles, [n \in {APng} |-> OldFile]}
       \/ /\ badDir \in Dirs
          /\ dstState = "absent"
          /\ out = NoFiles

\* one file holding any grid of the bounded set
InitGrid ==
    /\ listing \in {<<[dir |-> Root, name |-> <<"a", ".", "d", "c", "m">>,
                       content |-> Readable(g)]>> : g \in Grids}
    /\ badDir = NoDir
    /\ dstState = "absent"
    /\ out = NoFiles

\* Large grids, for the percentile window: a row of n sorted samples, the
\* first j of them -1, the last j of them MaxVal, a ramp over 0..MaxVal-1
\* between.
LargeSizes == {101, 150, 250}

LargeGrid(n, j) ==
    <<[i \in 1..n |->
          IF i <= j THEN 0 - 1
          ELSE IF i > n - j THEN MaxVal
          ELSE ((i - j - 1) * MaxVal) \div (n - 2 * j)]>>

\* the same grid with its k largest samples replaced by v
OutliersTop(g, k, v) ==
    <<[i \in 1..Len(g[1]) |-> IF i > Len(g[1]) - k THEN v ELSE g[1][i]]>>

\* the same grid with its k smallest samples replaced by v
OutliersBottom(g, k, v) ==
    <<[i \in 1..Len(g[1]) |-> IF i <= k THEN v ELSE g[1][i]]>>

\* two files in the input root: a large grid, and the same grid with fewer
\* than 1% of its samples, at one extreme, replaced by outliers
InitLarge ==
    /\ \E n \in LargeSizes, j \in 1..3, v \in {MaxVal + 1, MaxOutlier} :
       \E k \in {m \in 1..3 : 100 * m < n} :
       \E h \in {OutliersTop(LargeGrid(n, j), k, v),
                 OutliersBottom(LargeGrid(n, j), k, 0 - v)} :
           listing = << [dir |-> Root, name |-> <<"a", ".", "d", "c", "m">>,
                         content |-> Readable(LargeGrid(n, j))],
                        [dir |-> Root, name |-> <<"b", ".", "D", "c", "m">>,
                         content |-> Readable(h)] >>
    /\ badDir = NoDir
    /\ dstState = "absent"
    /\ out = NoFiles

\* one multi-frame file: two frames of one row or of one column
InitMulti ==
    /\ listing \in {<<[dir |-> Root, name |-> <<"a", ".", "d", "c", "m">>,
                       content |-> MultiFrame(g, 2)]>> :
                         g \in {h \in Grids : Len(h) % 2 = 0}}
    /\ badDir = NoDir
    /\ dstState = "absent"
    /\ out = NoFiles

\* generate_panel_doc.py is not running
PanelIdle ==
    /\ mainPc = "idle"
    /\ doc = [headings |-> 0, paragraphs |-> 0]
    /\ category = 0
    /\ question = 0
    /\ disk = [f \in {} |-> "absent"]
    /\ writable = TRUE
    /\ printed = <<>>
    /\ raised = "none"

Init ==
    /\ PanelIdle
    /\ InitBatch \/ InitGrid \/ InitLarge \/ InitMulti
    /\ Fresh
    /\ run = 1
    /\ snap = NoSnap
    /\ start = [dstState |-> dstState, out |-> out]

-----------------------------------------------------------------------------
(* The script, statement by statement *)

fsVars == <<listing, badDir>>
bodyVars == <<fn, px, lo, hi, img>>

\* makedirs whose OSError is caught and ignored
MakedirsErrorIgnored ==
    /\ pc = "makedirs"
    /\ dstState = "blocked"
    /\ count' = 0
    /\ stack' = <<Root>>
    /\ pc' = "loop"
    /\ UNCHANGED <<panelVars, fsVars, saved, start, dstState, out, err, root, files, bodyVars, stdout,
                   decoded, written, skipped, run, snap>>

\* line 13: os.makedirs(dst, exist_ok=True) raises OSError; nothing catches it
MakedirsError ==
    /\ pc = "makedirs"
    /\ dstState = "blocked"
    /\ pc' = "error"
    /\ err' = "makedirs"
    /\ UNCHANGED <<panelVars, fsVars, saved, start, dstState, out, stack, root, files, bodyVars, count,
                   stdout, decoded, written, skipped, run, snap>>

\* a setup that leaves the creation of the output root for later
MakedirsLazy ==
    /\ pc = "makedirs"
    /\ dstState # "blocked"
    /\ count' = 0
    /\ stack' = <<Root>>
    /\ pc' = "loop"
    /\ UNCHANGED <<panelVars, fsVars, saved, start, dstState, out, err, root, files,
                   bodyVars, stdout, decoded, written, skipped, run, snap>>

\* lines 11-16: the output root is created if absent, count = 0, os.walk(src)
\* starts with src on its stack
Makedirs ==
    /\ pc = "makedirs"
    /\ dstState # "blocked"
    /\ dstState' = "dir"
    /\ count' = 0
    /\ stack' = <<Root>>
    /\ pc' = "loop"
    /\ UNCHANGED <<panelVars, fsVars, saved, start, out, err, root, files, bodyVars, stdout, decoded,
                   written, skipped, run, snap>>

\* line 16: os.walk lists the directory on top of its stack and yields it; its
\* subdirectories go on the stack, to be listed after this directory's files
WalkDir ==
    /\ pc = "loop"
    /\ files = <<>>
    /\ stack # <<>>
    /\ Head(stack) # badDir
    /\ root' = Head(stack)
    /\ files' = FilesOf(listing, Head(stack))
    /\ stack' = Children(Head(stack)) \o Tail(stack)
    /\ UNCHANGED <<panelVars, fsVars, saved, start, dstState, out, pc, err, bodyVars, count, stdout,
                   decoded, written, skipped, run, snap>>

\* line 16: os.walk is called without onerror, so a directory that cannot be
\* listed (missing, unreadable) is dropped and the walk goes on
WalkSkip ==
    /\ pc = "loop"
    /\ files = <<>>
    /\ stack # <<>>
    /\ Head(stack) = badDir
    /\ stack' = Tail(stack)
    /\ skipped' = skipped \cup {Head(stack)}
    /\ UNCHANGED <<panelVars, fsVars, saved, start, dstState, out, pc, err, root, files, bodyVars, count,
                   stdout, decoded, written, run, snap>>

\* a filter that counts the files it passes over
SkipCounted ==
    /\ pc = "loop"
    /\ files # <<>>
    /\ ~Matches(listing[Head(files)].name)
    /\ fn' = listing[Head(files)].name
    /\ files' = Tail(files)
    /\ count' = count + 1
    /\ UNCHANGED <<panelVars, fsVars, saved, start, dstState, out, pc, err, stack, root, px, lo, hi, img,
                   stdout, decoded, written, skipped, run, snap>>

\* lines 17-19: a file whose name does not match is passed over
Skip ==
    /\ pc = "loop"
    /\ files # <<>>
    /\ ~Matches(listing[Head(files)].name)
    /\ fn' = listing[Head(files)].name
    /\ files' = Tail(files)
    /\ UNCHANGED <<panelVars, fsVars, saved, start, dstState, out, pc, err, stack, root, px, lo, hi, img,
                   count, stdout, decoded, written, skipped, run, snap>>

\* a loop that passes over a file it cannot decode
DecodeErrorSkipped ==
    /\ pc = "loop"
    /\ files # <<>>
    /\ Matches(listing[Head(files)].name)
    /\ ~listing[Head(files)].content.ok
    /\ fn' = listing[Head(files)].name
    /\ files' = Tail(files)
    /\ UNCHANGED <<panelVars, fsVars, saved, start, dstState, out, pc, err, stack, root, px, lo, hi, img,
                   count, stdout, decoded, written, skipped, run, snap>>

\* line 24: pydicom.dcmread (or pixel_array) raises; nothing catches it
DecodeError ==
    /\ pc = "loop"
    /\ files # <<>>
    /\ Matches(listing[Head(files)].name)
    /\ ~listing[Head(files)].content.ok
    /\ fn' = listing[Head(files)].name
    /\ pc' = "error"
    /\ err' = "decode"
    /\ UNCHANGED <<panelVars, fsVars, saved, start, dstState, out, stack, root, files, px, lo, hi, img,
                   count, stdout, decoded, written, skipped, run, snap>>

\* a save that never replaces a file: it picks a fresh name instead
SaveUnique(o, name, content) ==
    LET n == IF name \in DOMAIN o THEN name \o <<"~">> ELSE name
    IN  [m \in DOMAIN o \cup {n} |-> IF m = n THEN content ELSE o[m]]

\* a save that leaves an existing file alone
SaveKeepFirst(o, name, content) ==
    [m \in DOMAIN o \cup {name} |-> IF m \in DOMAIN o THEN o[m] ELSE content]

\* line 31: Image.save(out_path) creates the file or replaces its content
Save(o, name, content) ==
    [m \in DOMAIN o \cup {name} |-> IF m = name THEN content ELSE o[m]]

\* a loop body that counts the file before it is saved
SaveErrorCounted ==
    /\ pc = "loop"
    /\ files # <<>>
    /\ Matches(listing[Head(files)].name)
    /\ listing[Head(files)].content.ok
    /\ fn' = listing[Head(files)].name
    /\ px' = listing[Head(files)].content.grid
    /\ lo' = Percentile(px', 1)
    /\ hi' = Percentile(px', 99)
    /\ img' = Normalize(px', lo', hi')
    /\ decoded' = Append(decoded, Head(files))
    /\ saved' = Append(saved, OutPath(root, fn'))
    /\ \/ out' = out
       \/ /\ Mode(listing[Head(files)].content) # "none"
          /\ out' = Save(out, OutName(fn'), Partial)
    /\ pc' = "error"
    /\ err' = "save"
    /\ count' = count + 1
    /\ UNCHANGED <<panelVars, fsVars, start, dstState, stack, root, files, stdout, written,
                   skipped, run, snap>>

\* lines 24-31, line 31 failing: the file is decoded and normalised, then
\* Image.fromarray raises (the output root is left as it was) or Image.save
\* raises (the file is left as it was, or truncated)
SaveError ==
    /\ pc = "loop"
    /\ files # <<>>
    /\ Matches(listing[Head(files)].name)
    /\ listing[Head(files)].content.ok
    /\ fn' = listing[Head(files)].name
    /\ px' = listing[Head(files)].content.grid
    /\ lo' = Percentile(px', 1)
    /\ hi' = Percentile(px', 99)
    /\ img' = Normalize(px', lo', hi')
    /\ decoded' = Append(decoded, Head(files))
    /\ saved' = Append(saved, OutPath(root, fn'))
    /\ \/ out' = out
       \/ /\ Mode(listing[Head(files)].content) # "none"
          /\ out' = Save(out, OutName(fn'), Partial)
    /\ pc' = "error"
    /\ err' = "save"
    /\ UNCHANGED <<panelVars, fsVars, start, dstState, stack, root, files, count, stdout, written,
                   skipped, run, snap>>

\* a loop body that keeps the window of the first file for the later ones
ConvertStaleWindow ==
    /\ pc = "loop"
    /\ files # <<>>
    /\ Matches(listing[Head(files)].name)
    /\ listing[Head(files)].content.ok
    /\ Mode(listing[Head(files)].content) # "none"
    /\ fn' = listing[Head(files)].name
    /\ px' = listing[Head(files)].content.grid
    /\ lo' = (IF decoded = <<>> THEN Percentile(px', 1) ELSE lo)
    /\ hi' = (IF decoded = <<>> THEN Percentile(px', 99) ELSE hi)
    /\ img' = Normalize(px', lo', hi')
    /\ decoded' = Append(decoded, Head(files))
    /\ saved' = Append(saved, OutPath(root, fn'))
    /\ out' = Save(out, OutName(fn'), PngOf(img', Mode(listing[Head(files)].content)))
    /\ written' = Append(written, Head(files))
    /\ count' = count + 1
    /\ files' = Tail(files)
    /\ UNCHANGED <<panelVars, fsVars, start, dstState, pc, err, stack, root, stdout, skipped, run,
                   snap>>

\* lines 17-32: one matching file is decoded, normalised, saved and counted
Convert ==
    /\ pc = "loop"
    /\ files # <<>>
    /\ Matches(listing[Head(files)].name)
    /\ listing[Head(files)].content.ok
    /\ Mode(listing[Head(files)].content) # "none"
    /\ fn' = listing[Head(files)].name
    /\ px' = listing[Head(files)].content.grid
    /\ lo' = Percentile(px', 1)
    /\ hi' = Percentile(px', 99)
    /\ img' = Normalize(px', lo', hi')
    /\ decoded' = Append(decoded, Head(files))
    /\ saved' = Append(saved, OutPath(root, fn'))
    /\ out' = Save(out, OutName(fn'), PngOf(img', Mode(listing[Head(files)].content)))
    /\ written' = Append(written, Head(files))
    /\ count' = count + 1
    /\ files' = Tail(files)
    /\ UNCHANGED <<panelVars, fsVars, start, dstState, pc, err, stack, root, stdout, skipped, run,
                   snap>>

\* a summary of the output files rather than of the files converted
PrintSummaryDistinct ==
    /\ pc = "loop"
    /\ files = <<>>
    /\ stack = <<>>
    /\ stdout' = Append(stdout, <<"Converted", Cardinality({saved[k] : k \in 1..Len(saved)}),
                                  "DICOMs to PNG in:", DstPath>>)
    /\ pc' = "done"
    /\ UNCHANGED <<panelVars, fsVars, saved, start, dstState, out, err, stack, root, files, bodyVars,
                   count, decoded, written, skipped, run, snap>>

\* a summary of the files seen rather than converted
PrintSummarySeen ==
    /\ pc = "loop"
    /\ files = <<>>
    /\ stack = <<>>
    /\ stdout' = Append(stdout, <<"Converted", Len(listing), "DICOMs to PNG in:", DstPath>>)
    /\ pc' = "done"
    /\ UNCHANGED <<panelVars, fsVars, saved, start, dstState, out, err, stack, root, files, bodyVars,
                   count, decoded, written, skipped, run, snap>>

\* line 34: the walk is exhausted; the summary line is printed and the
\* script ends
PrintSummary ==
    /\ pc = "loop"
    /\ files = <<>>
    /\ stack = <<>>
    /\ stdout' = Append(stdout, <<"Converted", count, "DICOMs to PNG in:", DstPath>>)
    /\ pc' = "done"
    /\ UNCHANGED <<panelVars, fsVars, saved, start, dstState, out, err, stack, root, files, bodyVars,
                   count, decoded, written, skipped, run, snap>>

\* the script is invoked again on the same, unchanged input root and output
\* root, after a run that completed: a new process, the file systems as left
Rerun ==
    /\ pc = "done"
    /\ run < MaxRuns
    /\ run' = run + 1
    /\ snap' = IF snap.taken THEN snap ELSE [taken |-> TRUE, out |-> out]
    /\ pc' = "makedirs"
    /\ err' = "none"
    /\ stack' = <<>>
    /\ root' = NoDir
    /\ files' = <<>>
    /\ fn' = <<>>
    /\ px' = NoGrid
    /\ lo' = 0
    /\ hi' = 0
    /\ img' = NoGrid
    /\ count' = 0
    /\ stdout' = <<>>
    /\ decoded' = <<>>
    /\ written' = <<>>
    /\ skipped' = {}
    /\ saved' = <<>>
    /\ start' = [dstState |-> dstState, out |-> out]
    /\ UNCHANGED <<panelVars, fsVars, dstState, out>>

Next ==
    \/ Makedirs
    \/ MakedirsError
    \/ WalkDir
    \/ WalkSkip
    \/ Skip
    \/ DecodeError
    \/ SaveError
    \/ Convert
    \/ PrintSummary
    \/ Rerun

Spec == Init /\ [][Next]_vars

-----------------------------------------------------------------------------
(* src/generate_panel_doc.py: the main sequence *)

\* lines 1459-1460: the two paths the script defines
Primary == "./evidify-panel-review.docx"
Secondary == "./evidify-panel-review.docx"

\* lines 1364-1434: the number of questions of each category of
\* panel_questions, in the order of the dict
Questions == <<4, 4, 4, 3, 3, 3, 3, 3, 3, 3, 3, 3, 4>>

\* shutil.copy2 -> copyfile: _samefile(src, dst)
SameFile(a, b) == a = b

\* dcm_to_png.py is not running
DcmIdle ==
    /\ listing = <<>>
    /\ badDir = NoDir
    /\ dstState = "absent"
    /\ out = NoFiles
    /\ Fresh
    /\ run = 1
    /\ snap = NoSnap
    /\ start = [dstState |-> dstState, out |-> out]

dcmVars == <<listing, badDir, dstState, out, pc, err, stack, root, files, fn, px,
             lo, hi, img, count, stdout, decoded, written, skipped, run, snap,
             saved, start>>

\* line 1457 about to run, in a working directory that holds the primary
\* file from an earlier run or not, and can be written or not
PanelInit ==
    /\ DcmIdle
    /\ mainPc = "create"
    /\ doc = [headings |-> 0, paragraphs |-> 0]
    /\ category = 0
    /\ question = 0
    /\ disk \in [{Primary, Secondary} -> {"absent", "old"}]
    /\ writable \in BOOLEAN
    /\ printed = <<>>
    /\ raised = "none"

\* lines 41-1363: create_document up to the question loop
CreateBody ==
    /\ mainPc = "create"
    /\ mainPc' = "questions"
    /\ category' = 1
    /\ question' = 0 - 1
    /\ UNCHANGED <<dcmVars, doc, disk, writable, printed, raised>>

\* line 1437: the heading of the next category
AddHeading ==
    /\ mainPc = "questions"
    /\ category <= Len(Questions)
    /\ question = 0 - 1
    /\ doc' = [doc EXCEPT !.headings = @ + 1]
    /\ question' = 0
    /\ UNCHANGED <<dcmVars, mainPc, category, disk, writable, printed, raised>>

\* lines 1438-1440: the next question of the category
AddQuestion ==
    /\ mainPc = "questions"
    /\ category <= Len(Questions)
    /\ question >= 0
    /\ question < Questions[category]
    /\ doc' = [doc EXCEPT !.paragraphs = @ + 1]
    /\ question' = question + 1
    /\ UNCHANGED <<dcmVars, mainPc, category, disk, writable, printed, raised>>

\* line 1436: the questions of the category are exhausted
NextCategory ==
    /\ mainPc = "questions"
    /\ category <= Len(Questions)
    /\ question = Questions[category]
    /\ category' = category + 1
    /\ question' = 0 - 1
    /\ UNCHANGED <<dcmVars, mainPc, doc, disk, writable, printed, raised>>

\* lines 1442-1454: the closing paragraphs; create_document returns
FinishDocument ==
    /\ mainPc = "questions"
    /\ category > Len(Questions)
    /\ doc' = [doc EXCEPT !.paragraphs = @ + 3]
    /\ mainPc' = "save"
    /\ UNCHANGED <<dcmVars, category, question, disk, writable, printed, raised>>

\* lines 1463-1465: the directory of the primary path exists (it is "."),
\* the document is saved and the line is printed
SavePrimary ==
    /\ mainPc = "save"
    /\ writable
    /\ disk' = [disk EXCEPT ![Primary] = "docx"]
    /\ printed' = Append(printed, <<"Saved:", Primary>>)
    /\ mainPc' = "copy"
    /\ UNCHANGED <<dcmVars, doc, category, question, writable, raised>>

\* line 1464: doc.save cannot write the file
SavePrimaryError ==
    /\ mainPc = "save"
    /\ ~writable
    /\ raised' = "PermissionError"
    /\ mainPc' = "error"
    /\ UNCHANGED <<dcmVars, doc, category, question, disk, writable, printed>>

\* lines 1468-1472: shutil.copy2 raises SameFileError when the two paths are
\* the same file; otherwise the file is copied and the two lines are printed
CopySecondary ==
    /\ mainPc = "copy"
    /\ IF SameFile(Primary, Secondary)
       THEN /\ raised' = "SameFileError"
            /\ mainPc' = "error"
            /\ UNCHANGED <<disk, printed>>
       ELSE /\ disk' = [disk EXCEPT ![Secondary] = disk[Primary]]
            /\ printed' = printed \o <<<<"Copied:", Secondary>>, <<"Done.">>>>
            /\ mainPc' = "done"
            /\ UNCHANGED raised
    /\ UNCHANGED <<dcmVars, doc, category, question, writable>>

PanelNext ==
    \/ CreateBody
    \/ AddHeading
    \/ AddQuestion
    \/ NextCategory
    \/ FinishDocument
    \/ SavePrimary
    \/ SavePrimaryError
    \/ CopySecondary

PanelSpec == PanelInit /\ [][PanelNext]_vars

-----------------------------------------------------------------------------
(* Properties *)

Range(s) == {s[i] : i \in 1..Len(s)}
Last(s) == s[Len(s)]
\* the positions of a grid, whose rows all have the length of the first
Positions(g) == IF g = <<>> THEN {} ELSE (1..Len(g)) \X (1..Len(g[1]))
SameShape(g, h) ==
    /\ Len(g) = Len(h)
    /\ \A i \in 1..Len(g) : Len(g[i]) = Len(h[i])
IsConstant(g) == \A p, q \in Positions(g) : g[p[1]][p[2]] = g[q[1]][q[2]]
AllIn(g, S) == \A p \in Positions(g) : g[p[1]][p[2]] \in S

\* C1: every value of every normalized image (the one just computed and the
\* ones written to the output root) is an integer in 0..255, whatever the
\* source grid.
C1_RangeInv ==
    /\ AllIn(img, 0..255)
    /\ \A n \in DOMAIN out : out[n].kind = "png" => AllIn(out[n].data, 0..255)

\* a grid was normalised whose image has dark and bright values (>= 128)
C1_Witness ==
    /\ decoded # <<>>
    /\ \E p, q \in Positions(img) : img[p[1]][p[2]] = 0 /\ img[q[1]][q[2]] >= 128

\* C2: the normalized image has the rows and columns of the source grid and
\* holds, at every position, the normalised value of the sample at that
\* position; the file written holds that image.
C2_DimsInv ==
    /\ decoded # <<>> =>
          LET g == listing[Last(decoded)].content.grid
          IN  /\ SameShape(img, g)
              /\ \A p \in Positions(g) :
                     img[p[1]][p[2]] = Pixel(g[p[1]][p[2]], lo, hi)
    /\ (written # <<>> /\ err = "none") =>
          LET f == listing[Last(written)]
              o == out[OutName(f.name)]
          IN  o.kind = "png" /\ SameShape(o.data, f.content.grid)

\* a grid of two rows and two columns was converted and written
C2_Witness ==
    /\ written # <<>>
    /\ err = "none"
    /\ Len(px) = 2
    /\ Len(px[1]) = 2
    /\ Len(img) = 2

\* C3: for a constant source grid both bounds equal the constant, the
\* denominator hi - lo + epsilon is strictly positive, and the normalized
\* image is 0 everywhere.
C3_ConstantInv ==
    (decoded # <<>> /\ IsConstant(px)) =>
        /\ lo = hi
        /\ lo = 100 * px[1][1]
        /\ RatioDen(lo, hi) > 0
        /\ AllIn(img, {0})

\* a constant grid of several non-zero samples was normalised
C3_Witness ==
    /\ decoded # <<>>
    /\ IsConstant(px)
    /\ Len(Flatten(px)) >= 2
    /\ px[1][1] # 0
    /\ img # NoGrid

\* C4: in a grid with at least two distinct values, two samples b < a that
\* both lie inside the window [lo, hi] satisfy normalized(a) >= normalized(b).
C4_MonotoneInv ==
    (decoded # <<>> /\ ~IsConstant(px)) =>
        \A p, q \in Positions(px) :
            LET a == px[p[1]][p[2]]
                b == px[q[1]][q[2]]
            IN  (lo <= 100 * b /\ b < a /\ 100 * a <= hi)
                    => img[p[1]][p[2]] >= img[q[1]][q[2]]

\* two unclipped samples b < a exist and their images differ
C4_Witness ==
    /\ decoded # <<>>
    /\ \E p, q \in Positions(px) :
           /\ lo <= 100 * px[q[1]][q[2]]
           /\ px[q[1]][q[2]] < px[p[1]][p[2]]
           /\ 100 * px[p[1]][p[2]] <= hi
           /\ img[p[1]][p[2]] > img[q[1]][q[2]]

\* C5: a second completed run over the same input root and output root
\* leaves the output root exactly as the first completed run left it: the
\* same files with the same content.
C5_IdempotentInv ==
    (run >= 2 /\ pc = "done") => (snap.taken /\ out = snap.out)

\* a second run completed that converted two files onto the same output name
C5_Witness ==
    /\ run = 2
    /\ pc = "done"
    /\ \E i, j \in Range(written) :
           /\ i # j
           /\ OutName(listing[i].name) = OutName(listing[j].name)
           /\ listing[i].content # listing[j].content

\* the file names the claim calls matching: ".dcm" in any mix of cases
DcmCasings ==
    {<<".", d, c, m>> : d \in {"d", "D"}, c \in {"c", "C"}, m \in {"m", "M"}}
EndsWithDcm(name) == \E e \in DcmCasings : EndsWith(name, e)

\* C6: when a run completes, every file under the input root whose name ends
\* with ".dcm" in any case was converted, and no other file was decoded,
\* written or counted.
C6_ScannerComplete ==
    pc = "done" =>
        /\ \A i \in 1..Len(listing) :
               EndsWithDcm(listing[i].name) => i \in Range(written)
        /\ \A i \in Range(decoded) \cup Range(written) :
               EndsWithDcm(listing[i].name)
        /\ count = Len(written)

\* C7: a decode or write failure of one file never aborts the run: the run
\* does not end in the error while matching, readable files that come after
\* the failed file in traversal order are still unprocessed.
C7_PerFileErrorsNeverAbort ==
    (pc = "error" /\ err \in {"decode", "save"}) =>
        \A j \in (Head(files) + 1)..Len(listing) :
            (Matches(listing[j].name) /\ listing[j].content.ok /\ badDir = NoDir)
                => j \in Range(written)

\* C8: with a missing or unreadable input root the run never completes
\* normally.
C8_MissingRootFatal ==
    badDir = Root => pc # "done"

\* C9: a run never completes normally having skipped the matching files of
\* a subdirectory whose listing failed.
C9_TraversalErrorFatal ==
    pc = "done" =>
        \A i \in 1..Len(listing) :
            (listing[i].dir \in skipped \ {Root} /\ Matches(listing[i].name))
                => i \in Range(written)

\* C10: when the output root cannot be created the run aborts in its setup:
\* nothing is decoded, nothing is written, the counter is not incremented and
\* nothing is printed.
C10_SetupAbortInv ==
    dstState = "blocked" =>
        /\ pc \in {"makedirs", "error"}
        /\ pc = "error" => err = "makedirs"
        /\ decoded = <<>>
        /\ written = <<>>
        /\ out = NoFiles
        /\ count = 0
        /\ stdout = <<>>

\* the run has aborted on makedirs with matching files under the input root
C10_Witness ==
    /\ pc = "error"
    /\ err = "makedirs"
    /\ badDir = NoDir
    /\ \E i \in 1..Len(listing) :
           Matches(listing[i].name) /\ listing[i].content.ok

\* the matching files the traversal comes across: those of the directories
\* that can be listed (a directory below one that cannot is never reached)
Listable(d) == badDir = NoDir \/ d < badDir
Discovered ==
    {i \in 1..Len(listing) : Listable(listing[i].dir) /\ Matches(listing[i].name)}

\* C11: a run that ends, also one that met a file it could not decode, prints
\* a summary whose success count plus the number of undecodable files equals
\* the number of matching files discovered.
C11_SkippedCountReported ==
    (pc = "done" \/ (pc = "error" /\ err = "decode")) =>
        \E k \in 1..Len(stdout) :
            stdout[k][2] + Cardinality({i \in Discovered : ~listing[i].content.ok})
                = Cardinality(Discovered)

\* the image the normalizer makes of a grid
ImageOf(g) == Normalize(g, Percentile(g, 1), Percentile(g, 99))

\* the files of the output root whose name without its extension is stem
OutputsNamed(stem) == {m \in DOMAIN out : SplitextRoot(m) = stem}

\* C12: when a run completes in which two source files of different
\* directories with the same base filename were converted, the output root
\* holds exactly one file of that base name, and it is the normalised image
\* of the one of them that was processed last.
C12_CollisionInv ==
    pc = "done" =>
        \A k1, k2 \in 1..Len(written) :
            LET f1 == listing[written[k1]]
                f2 == listing[written[k2]]
            IN  ( /\ k1 < k2
                  /\ f1.dir # f2.dir
                  /\ SplitextRoot(f1.name) = SplitextRoot(f2.name)
                  /\ \A k3 \in (k2 + 1)..Len(written) :
                         SplitextRoot(listing[written[k3]].name) # SplitextRoot(f2.name) )
                => /\ Cardinality(OutputsNamed(SplitextRoot(f2.name))) = 1
                   /\ out[SplitextRoot(f2.name) \o PngExt] = Png(ImageOf(f2.content.grid))

\* a run completed that converted a.dcm of two directories, of different images
C12_Witness ==
    /\ pc = "done"
    /\ \E k1, k2 \in 1..Len(written) :
           /\ k1 < k2
           /\ listing[written[k1]].dir # listing[written[k2]].dir
           /\ listing[written[k1]].name = listing[written[k2]].name
           /\ ImageOf(listing[written[k1]].content.grid)
                  # ImageOf(listing[written[k2]].content.grid)

\* a file name up to its last dot
CutFinalExt(name) ==
    IF DotPositions(name) = {} THEN name ELSE SubSeq(name, 1, LastDot(name) - 1)

\* C13: for a source file at any nesting depth, the output path is exactly
\* <output root>/<source filename with its final extension replaced by .png>:
\* no subdirectory under the output root, nothing outside it.
C13_Flatten ==
    \A k \in 1..Len(saved) :
        saved[k] = <<DstPath, CutFinalExt(listing[decoded[k]].name) \o PngExt>>

\* a name that is dots up to its last dot (".dcm"): splitext finds no extension
OnlyLeadingDots(name) ==
    DotPositions(name) # {} /\ \A j \in 1..LastDot(name) : name[j] = "."

\* what lines 20-22 do: every file handed to the writer goes to the
\* two-component path <output root>/<name>, whatever the depth of its
\* directory, where <name> is the source filename with its final extension
\* replaced by .png, or with .png appended when the filename is dots up to
\* its last dot.
FlattenedPaths ==
    \A k \in 1..Len(saved) :
        LET nm == listing[decoded[k]].name
        IN  /\ Len(saved[k]) = 2
            /\ saved[k][1] = DstPath
            /\ "/" \notin Range(saved[k][2])
            /\ saved[k][2] = (IF OnlyLeadingDots(nm) THEN nm ELSE CutFinalExt(nm)) \o PngExt

\* a file two directories down and a file named ".dcm" were both saved
FlattenedBoth ==
    /\ \E k \in 1..Len(saved) : listing[decoded[k]].dir = 2
    /\ \E k \in 1..Len(saved) : listing[decoded[k]].name = DcmExt
    /\ Len(written) = Len(saved)

\* C14: the output root exists from the moment the setup is over: before the
\* traversal, before the first decode and the first write, and also at the
\* end of a run in which no file matched; nothing is written before.
C14_DirFirstInv ==
    /\ (pc \in {"loop", "done"} \/ decoded # <<>> \/ saved # <<>> \/ written # <<>>)
           => dstState = "dir"
    /\ pc = "makedirs" => (out = start.out /\ decoded = <<>> /\ saved = <<>>)

\* an output root that was absent exists and a file was written into it
C14_Witness ==
    /\ start.dstState = "absent"
    /\ dstState = "dir"
    /\ written # <<>>

\* the input root exists and can be listed, and no file under it matches
NoMatchingFile ==
    /\ badDir # Root
    /\ \A i \in 1..Len(listing) : ~Matches(listing[i].name)

\* what a run on an input root without matching files leaves when it is over
EmptyRunResult ==
    /\ count = 0
    /\ \E k \in 1..Len(stdout) : stdout[k][2] = 0
    /\ written = <<>>
    /\ saved = <<>>
    /\ dstState = "dir"
    /\ out = start.out

\* C15: given an existing input root that contains no matching source file,
\* the run completes normally, reports a conversion count of 0, writes no
\* output file, and the output root exists and is as it was (empty if it was
\* absent or empty).
C15_EmptyRun ==
    NoMatchingFile =>
        /\ pc # "error"
        /\ pc = "done" => EmptyRunResult

\* C15 amended: the same, given also an output root that exists or can be
\* created.
C15_EmptyRunInv ==
    (NoMatchingFile /\ start.dstState # "blocked") =>
        /\ pc # "error"
        /\ out = start.out
        /\ pc = "done" => EmptyRunResult

\* a run over non-matching files only completed and created the output root
C15_Witness ==
    /\ NoMatchingFile
    /\ listing # <<>>
    /\ start.dstState = "absent"
    /\ pc = "done"
    /\ EmptyRunResult
    /\ out = NoFiles

\* C16: a run that ends without error prints exactly one line, `Converted
\* <N> files to: <output root>`, as its last step, N being the number of
\* files converted in this run.
C16_Summary ==
    pc = "done" => stdout = <<<<"Converted", Len(written), "files to:", DstPath>>>>

\* C16 amended: a run that ends without error prints exactly one line,
\* `Converted <N> DICOMs to PNG in: <output root>`, as its last step after
\* every file the traversal yields was processed, N being the number of files
\* decoded, normalised and written in this run; nothing is printed before.
C16_SummaryInv ==
    /\ pc # "done" => stdout = <<>>
    /\ pc = "done" =>
           /\ stdout = <<<<"Converted", Len(written), "DICOMs to PNG in:", DstPath>>>>
           /\ count = Len(written)
           /\ files = <<>> /\ stack = <<>>
           /\ Range(written) = Discovered
           /\ \A i \in Range(written) : out[OutName(listing[i].name)].kind = "png"

\* a second run over a matching file and another file ended: it reports 1
C16_Witness ==
    /\ pc = "done"
    /\ run = 2
    /\ Len(written) = 1
    /\ Len(listing) = 2
    /\ stdout[1][2] = 1

At(g, p) == g[p[1]][p[2]]
Dist(a, b) == IF a >= b THEN a - b ELSE b - a

\* the positions at which two grids of one shape differ
Changed(g, h) == {p \in Positions(g) : At(g, p) # At(h, p)}

\* h is g with fewer than 1% of its samples replaced: samples at the extreme
\* top by larger values, or samples at the extreme bottom by smaller ones
OutlierPerturbed(g, h) ==
    /\ SameShape(g, h)
    /\ Changed(g, h) # {}
    /\ 100 * Cardinality(Changed(g, h)) < Cardinality(Positions(g))
    /\ \/ \A p \in Changed(g, h) :
              /\ At(h, p) > At(g, p)
              /\ \A q \in Positions(g) \ Changed(g, h) : At(g, q) <= At(g, p)
       \/ \A p \in Changed(g, h) :
              /\ At(h, p) < At(g, p)
              /\ \A q \in Positions(g) \ Changed(g, h) : At(g, q) >= At(g, p)

\* the written image of file i of the listing
OutputOf(i) == out[OutName(listing[i].name)].data

\* C17: when a grid and the same grid with fewer than 1% of its samples, at
\* one extreme, replaced by more extreme values were both converted, the two
\* images differ by at most one level at every unperturbed position, however
\* extreme the replacing values.
C17_StableInv ==
    (pc = "done" /\ Len(written) = 2) =>
        \A i1, i2 \in Range(written) :
            LET g == listing[i1].content.grid
                h == listing[i2].content.grid
            IN  ( /\ OutName(listing[i1].name) # OutName(listing[i2].name)
                  /\ OutlierPerturbed(g, h) )
                => \A q \in Positions(g) \ Changed(g, h) :
                       Dist(At(OutputOf(i1), q), At(OutputOf(i2), q)) <= 1

\* both were converted, the outliers are MaxOutlier away from the bulk, and
\* the image of the bulk spans dark to bright
C17_Witness ==
    /\ pc = "done"
    /\ Len(written) = 2
    /\ OutlierPerturbed(listing[written[1]].content.grid,
                        listing[written[2]].content.grid)
    /\ \E p \in Changed(listing[written[1]].content.grid,
                        listing[written[2]].content.grid) :
           Dist(At(listing[written[2]].content.grid, p), 0) = MaxOutlier
    /\ \E q, r \in Positions(OutputOf(written[1])) :
           At(OutputOf(written[1]), q) = 0 /\ At(OutputOf(written[1]), r) >= 254

NoDuplicates(s) == \A i, j \in 1..Len(s) : i # j => s[i] # s[j]
IsPrefix(s, t) == Len(s) <= Len(t) /\ \A k \in 1..Len(s) : s[k] = t[k]

\* C18: in a run every matching file is scanned, then decoded and
\* normalised, then written, once: no file is decoded or written twice, only
\* files the scan matched are decoded, only decoded files are written and in
\* the order of their decoding, and a file's processing ends written and
\* counted, or in the error that ends the run.
C18_OncePerFileInv ==
    /\ NoDuplicates(decoded)
    /\ NoDuplicates(written)
    /\ Range(decoded) \subseteq Discovered
    /\ \A i \in Range(decoded) : listing[i].content.ok
    /\ IsPrefix(written, decoded)
    /\ Len(saved) = Len(decoded)
    /\ count = Len(written)
    /\ Len(decoded) # Len(written) =>
           /\ Len(decoded) = Len(written) + 1
           /\ pc = "error" /\ err = "save"
    /\ pc = "done" => Range(written) = Discovered

\* two files of different directories were each decoded and written
C18_Witness ==
    /\ pc = "done"
    /\ Len(written) = 2
    /\ decoded = written
    /\ listing[written[1]].dir # listing[written[2]].dir

\* the sample of rank k (from 0) of a sequence of samples: fewer than k + 1
\* samples are below it, more than k are not above it
OrderStat(x, k) ==
    CHOOSE v \in Range(x) :
        /\ Cardinality({i \in 1..Len(x) : x[i] < v}) <= k
        /\ Cardinality({i \in 1..Len(x) : x[i] <= v}) > k

\* 100 x the q-th percentile of the samples, interpolated linearly between
\* the two samples whose ranks enclose q/100 * (n - 1)
PercentileByRank(x, q) ==
    LET k == (q * (Len(x) - 1)) \div 100
        f == (q * (Len(x) - 1)) % 100
    IN  IF f = 0 THEN 100 * OrderStat(x, k)
        ELSE (100 - f) * OrderStat(x, k) + f * OrderStat(x, k + 1)

RefPercentile(g, q) == PercentileByRank(Flatten(g), q)

Min2(a, b) == IF a <= b THEN a ELSE b
Max2(a, b) == IF a >= b THEN a ELSE b

\* v = floor(255 * clamp((s - lowBound) / (highBound - lowBound + 1e-6), 0, 1)),
\* for 100 x lowBound = l and 100 x highBound = h: numerator and denominator
\* in units of 1e-6
IsScaledFloor(v, s, l, h) ==
    LET den == (h - l) * 10000 + 1
        c   == Min2(Max2((100 * s - l) * 10000, 0), den)
    IN  /\ v \in 0..255
        /\ v * den <= 255 * c
        /\ 255 * c < (v + 1) * den

\* C19: the window of a normalised grid is the 1st and the 99th percentile
\* of its flattened samples, and every value of the image is
\* floor(255 * clamp((s - lowBound) / (highBound - lowBound + 1e-6), 0, 1))
\* of the sample s at its position.
C19_ReferenceInv ==
    px # NoGrid =>
        /\ lo = RefPercentile(px, 1)
        /\ hi = RefPercentile(px, 99)
        /\ SameShape(img, px)
        /\ \A p \in Positions(px) :
               IsScaledFloor(At(img, p), At(px, p), lo, hi)

\* a grid was normalised to an image with values inside the range, one of
\* them a quotient that truncation cut
C19_Witness ==
    /\ px # NoGrid
    /\ lo < hi
    /\ \E p \in Positions(px) :
           /\ At(img, p) \in 1..253
           /\ At(img, p) * ((hi - lo) * 10000 + 1) < 255 * (100 * At(px, p) - lo) * 10000

\* C20: for a grid with a non-degenerate window (lowBound < highBound),
\* every sample at or below lowBound is mapped to 0 and every sample at or
\* above highBound is mapped to 255, so both ends of the 8-bit range are
\* attained.
C20_FullRange ==
    (px # NoGrid /\ lo < hi) =>
        /\ \A p \in Positions(px) :
               /\ 100 * At(px, p) <= lo => At(img, p) = 0
               /\ 100 * At(px, p) >= hi => At(img, p) = 255
        /\ \E p \in Positions(px) : At(img, p) = 0
        /\ \E p \in Positions(px) : At(img, p) = 255

\* b (100 x a bound) is the q-th percentile of the samples x by linear
\* interpolation: with k = floor(q/100 * (n - 1)) and f the fractional part,
\* b lies the fraction f of the way from the sample of rank k to the sample
\* of rank k + 1, and strictly between them, equal to no sample, when f > 0
\* and the two samples differ
Interpolates(b, x, q) ==
    LET k == (q * (Len(x) - 1)) \div 100
        f == (q * (Len(x) - 1)) % 100
        a == OrderStat(x, k)
    IN  IF f = 0
        THEN b = 100 * a
        ELSE LET c == OrderStat(x, k + 1)
             IN  /\ b - 100 * a = f * (c - a)
                 /\ a # c => \A i \in 1..Len(x) : b # 100 * x[i]

\* C21: the bounds of a normalised grid are its 1st and 99th percentile by
\* linear interpolation between adjacent sorted samples, x[k] + f * (x[k+1] -
\* x[k]) with k and f the integer and fractional part of p/100 * (n - 1); a
\* bound that falls between two different samples is not a sample.
C21_InterpolatedInv ==
    px # NoGrid =>
        LET x == Flatten(px)
        IN  /\ Interpolates(lo, x, 1)
            /\ Interpolates(hi, x, 99)

\* a grid was normalised whose two bounds both fall between samples
C21_Witness ==
    /\ px # NoGrid
    /\ lo % 100 # 0
    /\ hi % 100 # 0
    /\ Len(Flatten(px)) >= 3

\* C22: for every non-empty source grid, lowBound <= highBound and both
\* bounds lie between the smallest and the largest sample of the grid.
C22_WindowInv ==
    px # NoGrid =>
        LET x == Flatten(px)
        IN  /\ lo <= hi
            /\ \E i \in 1..Len(x) : 100 * x[i] <= lo
            /\ \E i \in 1..Len(x) : 100 * x[i] >= hi

\* a grid of different samples was normalised: lowBound < highBound, both
\* strictly inside the range of the samples
C22_Witness ==
    /\ px # NoGrid
    /\ lo < hi
    /\ \E i \in 1..Len(Flatten(px)) : 100 * Flatten(px)[i] < lo
    /\ \E i \in 1..Len(Flatten(px)) : 100 * Flatten(px)[i] > hi

\* C23: at the end of a run, the image in the output root of every file
\* written and not overwritten since is the image of that file's own grid
\* alone, with the window of its own samples, whatever other files the input
\* root holds and in whatever order they were processed.
C23_OwnGridOnlyInv ==
    pc \in {"done", "error"} =>
        \A k \in 1..Len(written) :
            (\A k2 \in (k + 1)..Len(saved) : saved[k2] # saved[k])
                => out[saved[k][2]].data = ImageOf(listing[written[k]].content.grid)

\* two files of different grids were written to different paths, the second
\* after the first: each has the image of its own grid
C23_Witness ==
    /\ pc = "done"
    /\ Len(written) = 2
    /\ saved[1] # saved[2]
    /\ listing[written[1]].content.grid # listing[written[2]].content.grid
    /\ out[saved[2][2]].data # out[saved[1][2]].data

\* C24: the counter is 0 when a run starts; a step adds exactly 1 to it when
\* it completes the write of a matching file, and leaves it alone otherwise
\* (a non-matching file, a failed decode, a failed write); it only returns
\* to 0 with the start of a new run; it equals the number of writes completed
\* in this run.
C24_CounterSteps ==
    /\ [](pc = "makedirs" => count = 0)
    /\ [](count = Len(written))
    /\ [][ \/ /\ count' = count + 1
              /\ pc = "loop" /\ files # <<>>
              /\ Matches(listing[Head(files)].name)
              /\ written' = Append(written, Head(files))
              /\ out'[OutName(listing[Head(files)].name)].kind = "png"
              /\ pc' = "loop"
           \/ /\ count' = count
              /\ written' = written
           \/ /\ count' = 0
              /\ run' = run + 1 ]_vars

\* the first file was written and counted, the write of the second failed
C24_Witness ==
    /\ pc = "error"
    /\ err = "save"
    /\ Len(decoded) = 2
    /\ count = 1

\* the first frame of a file's array
FirstFrame(content) == SubSeq(content.grid, 1, Len(content.grid) \div content.frames)

\* C25: of a multi-frame source file only the first frame is converted: the
\* image written is two-dimensional (greyscale), has the rows and columns of
\* one frame, and its window and values are those of the first frame alone.
C25_FirstFrameOnly ==
    \A k \in 1..Len(written) :
        ( /\ listing[written[k]].content.frames > 1
          /\ \A k2 \in (k + 1)..Len(saved) : saved[k2] # saved[k] )
            => out[saved[k][2]] = Png(ImageOf(FirstFrame(listing[written[k]].content)))

\* the files of the output root this run created or changed
Touched == {n \in DOMAIN out : n \notin DOMAIN start.out \/ out[n] # start.out[n]}

\* C26: no step creates, overwrites or deletes a file whose name matches the
\* source extension: the input tree stays as it is, no file of the output
\* root disappears, and every file a step creates or changes ends in ".png",
\* does not match, and is at the path of no matching source file, also when
\* the output root is the input root or a directory inside it.
C26_SourcesReadOnlySteps ==
    [][ /\ listing' = listing
        /\ out' # out =>
               /\ DOMAIN out \subseteq DOMAIN out'
               /\ \A n \in DOMAIN out' :
                      (n \notin DOMAIN out \/ out'[n] # out[n]) =>
                          /\ EndsWith(n, PngExt)
                          /\ ~Matches(n)
                          /\ \A d \in Dirs, i \in 1..Len(listing) :
                                 Matches(listing[i].name) =>
                                     <<d, n>> # <<listing[i].dir, listing[i].name>> ]_vars

\* a file was converted from the input root itself and its image created
C26_Witness ==
    /\ written # <<>>
    /\ listing[written[1]].dir = Root
    /\ Touched # {}
    /\ Last(saved[1]) \in Touched

\* C27: two distinct matching source files are written to the same output
\* path if and only if their filenames are equal after removing the final
\* extension, compared case-sensitively, in the same directory ("a.dcm" and
\* "a.DCM") or not.
C27_SamePathIffSameStem ==
    \A k1, k2 \in 1..Len(saved) :
        k1 # k2 =>
            ( saved[k1] = saved[k2]
                <=> CutFinalExt(listing[decoded[k1]].name)
                        = CutFinalExt(listing[decoded[k2]].name) )

\* C28: at the end of a completed run the reported count is at least the
\* number of distinct output files written in this run, and equal to it
\* exactly when no two converted files have the same output name.
C28_CountVsOutputsInv ==
    pc = "done" =>
        LET reported == stdout[1][2]
            outputs  == Cardinality({n \in DOMAIN out :
                                        \E k \in 1..Len(written) :
                                            n = OutName(listing[written[k]].name)})
            collided == \E k1, k2 \in 1..Len(written) :
                            /\ k1 # k2
                            /\ OutName(listing[written[k1]].name)
                                   = OutName(listing[written[k2]].name)
        IN  /\ reported >= outputs
            /\ reported = outputs <=> ~collided

\* a run completed that reports two files and left one output file
C28_Witness ==
    /\ pc = "done"
    /\ stdout[1][2] = 2
    /\ Cardinality(Touched) = 1
    /\ listing[written[1]].dir = listing[written[2]].dir

\* the summary is printed only after every matching file discovered was
\* written; an abort prints nothing and processes no later file
SummaryOnlyAfterAll ==
    /\ stdout # <<>> => (pc = "done" /\ Range(written) = Discovered)
    /\ pc = "error" =>
           /\ stdout = <<>>
           /\ ~ENABLED (Convert \/ SaveError \/ DecodeError \/ Skip \/ WalkDir
                          \/ WalkSkip \/ PrintSummary \/ Rerun)

\* C29: the summary line is printed only if every matching source file
\* discovered was decoded, normalised and written; when a file fails and
\* the run aborts, the output files of the files processed before it remain,
\* no later file is processed and no summary line is printed.
C29_AbortKeepsEarlier ==
    /\ SummaryOnlyAfterAll
    /\ (pc = "error" /\ err \in {"decode", "save"}) =>
           \A k \in 1..Len(written) : out[saved[k][2]].kind = "png"

\* C29 amended: the same, where the output files that remain are those of
\* the files processed before whose output path is not the path of the
\* failing file itself.
C29_AbortKeepsEarlierInv ==
    /\ SummaryOnlyAfterAll
    /\ (pc = "error" /\ err \in {"decode", "save"}) =>
           \A k \in 1..Len(written) :
               saved[k] # OutPath(root, fn) => out[saved[k][2]].kind = "png"

\* a file was written and its image remains; the next file failed
C29_Witness ==
    /\ pc = "error"
    /\ err \in {"decode", "save"}
    /\ Len(written) = 1
    /\ out[saved[1][2]].kind = "png"
    /\ stdout = <<>>

\* C30: the main sequence of the report script runs to completion: the
\* document is built, saved to the primary path, copied to the secondary
\* path, then "Done." is printed; the run ends without an error (in a working
\* directory that can be written).
C30_MainCompletes ==
    /\ writable => mainPc # "error"
    /\ mainPc = "done" =>
           /\ printed = <<<<"Saved:", Primary>>, <<"Copied:", Secondary>>, <<"Done.">>>>
           /\ disk[Primary] = "docx"
           /\ disk[Secondary] = "docx"

====
